---- MODULE Spec2Model ----
(***************************************************************************)
(* Model of the subnet calculator engine (class Utils) of                  *)
(* bedecarroll/subnetcalc: Utils.processInput, Utils.isIPInSubnet and      *)
(* Utils.generateSubnetList, with the text and 32-bit helpers they use.    *)
(*                                                                         *)
(* Texts are TLA+ strings.  A JavaScript number that only ever enters bit  *)
(* operations is kept as its 32-bit pattern, a record [hi, lo] of two      *)
(* 16-bit halves, because the model checker's integers are narrower than   *)
(* 2^32.  Host counts, which reach 2^32 and beyond, are kept as four       *)
(* 16-bit limbs, least significant first.                                  *)
(***************************************************************************)
EXTENDS Integers, Sequences, FiniteSets, TLC

(***************************************************************************)
(* JavaScript string primitives                                            *)
(***************************************************************************)

\* The value parseInt returns for a text without digits. No text of the
\* model parses to this number.
NaN == 0 - 1000000000

TwoPow16 == 2^16

CharAt(s, i) == SubSeq(s, i, i)

DigitChars == "0123456789abcdefghijklmnopqrstuvwxyz"

UpperChars == "0123456789ABCDEFGHIJKLMNOPQRSTUVWXYZ"

\* The value of character c as a digit, 36 when it is none.
DigitValue(c) ==
  IF \E i \in 1..36 : CharAt(DigitChars, i) = c \/ CharAt(UpperChars, i) = c
  THEN (CHOOSE i \in 1..36 : CharAt(DigitChars, i) = c \/ CharAt(UpperChars, i) = c) - 1
  ELSE 36

\* String.prototype.indexOf: the first position of sub in s, 0 when absent.
IndexOf(s, sub) ==
  LET hits == {i \in 1..(Len(s) - Len(sub) + 1) : SubSeq(s, i, i + Len(sub) - 1) = sub}
  IN IF hits = {} THEN 0 ELSE CHOOSE i \in hits : \A j \in hits : i <= j

\* String.prototype.includes
Includes(s, sub) == IndexOf(s, sub) # 0

\* String.prototype.startsWith
StartsWith(s, p) == Len(s) >= Len(p) /\ SubSeq(s, 1, Len(p)) = p

\* String.prototype.split with a non-empty separator.
RECURSIVE Split(_, _)
Split(s, sep) ==
  LET i == IndexOf(s, sep)
  IN IF i = 0 THEN <<s>>
     ELSE <<SubSeq(s, 1, i - 1)>> \o Split(SubSeq(s, i + Len(sep), Len(s)), sep)

\* Array.prototype.join
RECURSIVE Join(_, _)
Join(parts, sep) ==
  IF Len(parts) = 0 THEN ""
  ELSE IF Len(parts) = 1 THEN parts[1]
  ELSE parts[1] \o sep \o Join(Tail(parts), sep)

RECURSIVE TrimStart(_)
TrimStart(s) ==
  IF Len(s) > 0 /\ CharAt(s, 1) = " " THEN TrimStart(SubSeq(s, 2, Len(s))) ELSE s

RECURSIVE TrimEnd(_)
TrimEnd(s) ==
  IF Len(s) > 0 /\ CharAt(s, Len(s)) = " " THEN TrimEnd(SubSeq(s, 1, Len(s) - 1)) ELSE s

\* String.prototype.trim
Trim(s) == TrimEnd(TrimStart(s))

\* String.prototype.padStart with a one-character filler.
RECURSIVE PadStart(_, _, _)
PadStart(s, n, c) == IF Len(s) >= n THEN s ELSE PadStart(c \o s, n, c)

\* The digits parseInt consumes: the value of the longest prefix of s made of
\* digits below the radix, acc being the value of the digits read so far.
RECURSIVE ParseDigits(_, _, _)
ParseDigits(s, radix, acc) ==
  IF Len(s) > 0 /\ DigitValue(CharAt(s, 1)) < radix
  THEN ParseDigits(SubSeq(s, 2, Len(s)), radix, acc * radix + DigitValue(CharAt(s, 1)))
  ELSE acc

\* parseInt(s, radix): leading white space is skipped, one sign is read, with
\* radix 16 a 0x prefix is skipped, then digits are read up to the first
\* character that is none; NaN when there is no digit.
ParseInt(s, radix) ==
  LET t    == TrimStart(s)
      neg  == Len(t) > 0 /\ CharAt(t, 1) = "-"
      sgn  == Len(t) > 0 /\ CharAt(t, 1) \in {"-", "+"}
      u    == IF sgn THEN SubSeq(t, 2, Len(t)) ELSE t
      v    == IF radix = 16 /\ (StartsWith(u, "0x") \/ StartsWith(u, "0X"))
              THEN SubSeq(u, 3, Len(u)) ELSE u
      none == Len(v) = 0 \/ DigitValue(CharAt(v, 1)) >= radix
      n    == ParseDigits(v, radix, 0)
  IN IF none THEN NaN ELSE IF neg THEN 0 - n ELSE n

\* Number.prototype.toString(radix) of a natural number.
RECURSIVE NatToString(_, _)
NatToString(n, radix) ==
  IF n < radix THEN CharAt(DigitChars, n + 1)
  ELSE NatToString(n \div radix, radix) \o CharAt(DigitChars, (n % radix) + 1)

\* Number.prototype.toString(radix), as template literals and join apply it.
NumToString(n, radix) ==
  IF n = NaN THEN "NaN"
  ELSE IF n < 0 THEN "-" \o NatToString(0 - n, radix)
  ELSE NatToString(n, radix)

\* ToInt32 of a number that may be NaN, as the bit operators apply it
\* (the numbers this is applied to are below 2^31 in size).
ToInt32(n) == IF n = NaN THEN 0 ELSE n

(***************************************************************************)
(* 32-bit words and host counts                                            *)
(***************************************************************************)

\* The 32-bit pattern hi * 2^16 + lo.
Word(hi, lo) == [hi |-> hi, lo |-> lo]

\* 0xFFFFFFFF
AllOnes == Word(TwoPow16 - 1, TwoPow16 - 1)

RECURSIVE And16(_, _, _)
And16(a, b, n) ==
  IF n = 0 THEN 0 ELSE (a % 2) * (b % 2) + 2 * And16(a \div 2, b \div 2, n - 1)

\* a & b on 16-bit operands
BitAnd16(a, b) == And16(a, b, 16)

\* a | b on 16-bit operands
BitOr16(a, b) == a + b - BitAnd16(a, b)

\* x & y
AndW(x, y) == Word(BitAnd16(x.hi, y.hi), BitAnd16(x.lo, y.lo))

\* x | y
OrW(x, y) == Word(BitOr16(x.hi, y.hi), BitOr16(x.lo, y.lo))

\* ~x
NotW(x) == Word(TwoPow16 - 1 - x.hi, TwoPow16 - 1 - x.lo)

\* x << count: the shift operators use the low five bits of the count.
ShlW(x, count) ==
  LET s == count % 32
  IN IF s < 16
     THEN Word((x.hi * 2^s + (x.lo * 2^s) \div TwoPow16) % TwoPow16, (x.lo * 2^s) % TwoPow16)
     ELSE Word((x.lo * 2^(s - 16)) % TwoPow16, 0)

\* x >>> count
ShrW(x, count) ==
  LET s == count % 32
  IN IF s < 16
     THEN Word(x.hi \div 2^s, (x.lo \div 2^s) + (x.hi % 2^s) * 2^(16 - s))
     ELSE Word(0, x.hi \div 2^(s - 16))

\* x + n with the sign of n dropped, so that x - 1 steps up.
AddW_SignDropped(x, n) ==
  LET t == x.lo + (IF n < 0 THEN 0 - n ELSE n)
  IN Word((x.hi + t \div TwoPow16) % TwoPow16, t % TwoPow16)

\* x + n for a small integer n, as the bit operators then read it (mod 2^32).
AddW(x, n) ==
  LET t == x.lo + n
  IN Word((x.hi + t \div TwoPow16) % TwoPow16, t % TwoPow16)

\* x + i * y (mod 2^32) for a small natural i.
AddMulW(x, i, y) ==
  LET t == x.lo + i * y.lo
  IN Word((x.hi + i * y.hi + t \div TwoPow16) % TwoPow16, t % TwoPow16)

\* Math.pow(2, n) for n in 0..31 as a word
Pow2W(n) == IF n < 16 THEN Word(0, 2^n) ELSE Word(2^(n - 16), 0)

\* (o[1] << 24) + (o[2] << 16) + (o[3] << 8) + o[4]
OctetsToInt(o) == Word(o[1] * 256 + o[2], o[3] * 256 + o[4])

\* Math.pow(2, n) for n in 0..63 as a host count
Pow2Count(n) == [i \in 1..4 |-> IF i = (n \div 16) + 1 THEN 2^(n % 16) ELSE 0]

\* Number.MAX_SAFE_INTEGER = 2^53 - 1
MaxSafeInteger == <<TwoPow16 - 1, TwoPow16 - 1, TwoPow16 - 1, 31>>

ZeroCount == <<0, 0, 0, 0>>

\* A small natural as a host count
SmallCount(n) == <<n, 0, 0, 0>>

\* c - 2 for a host count c >= 2
RECURSIVE Borrow(_, _, _)
Borrow(c, i, n) ==
  IF n = 0 \/ i > 4 THEN c
  ELSE IF c[i] >= n THEN [c EXCEPT ![i] = c[i] - n]
  ELSE Borrow([c EXCEPT ![i] = c[i] + TwoPow16 - n], i + 1, 1)

\* Math.max(0, totalHosts - 2) where totalHosts is 2^hostBits or
\* MAX_SAFE_INTEGER: from 2^55 on the difference rounds back to 2^hostBits.
UsableCount(total, hostBits) ==
  IF total = SmallCount(1) THEN ZeroCount
  ELSE IF total # MaxSafeInteger /\ hostBits >= 55 THEN total
  ELSE Borrow(total, 1, 2)

(***************************************************************************)
(* Utils: IPv4                                                             *)
(***************************************************************************)

\* null, where a function returns it instead of a SubnetInfo
Null == [null |-> TRUE]

\* null in the octets array
NullOctet == 0 - 1

\* Helper function to convert 32-bit integer to IPv4 string
IntToIPv4(int) ==
  Join(<<NumToString(int.hi \div 256, 10), NumToString(int.hi % 256, 10),
         NumToString(int.lo \div 256, 10), NumToString(int.lo % 256, 10)>>, ".")

\* Helper function to check if IPv4 is private
IsPrivateIPv4(ipInt) ==
  LET ip == <<ipInt.hi \div 256, ipInt.hi % 256, ipInt.lo \div 256, ipInt.lo % 256>>
  IN \/ ip[1] = 10
     \/ (ip[1] = 172 /\ ip[2] >= 16 /\ ip[2] <= 31)
     \/ (ip[1] = 192 /\ ip[2] = 168)

\* The callback of ipParts.map: the octet, or null
ParseOctet(part) ==
  LET num == ParseInt(part, 10)
  IN IF num = NaN \/ num < 0 \/ num > 255 THEN NullOctet ELSE num

\* The subnet mask shifted by the prefix length instead of the host bits.
SubnetMaskInt_ShiftByCidr(hostBits) == ShlW(AllOnes, 32 - hostBits)

\* The subnet mask of calculateIPv4Subnet and isIPv4InSubnet:
\* (0xFFFFFFFF << hostBits) >>> 0
SubnetMaskInt(hostBits) == ShlW(AllOnes, hostBits)

\* (networkInt | (0xFFFFFFFF >>> cidr)) >>> 0
BroadcastInt(networkInt, cidr) == OrW(networkInt, ShrW(AllOnes, cidr))

\* Determine network class
NetworkClass(firstOctet) ==
  IF firstOctet >= 1 /\ firstOctet <= 126 THEN "A"
  ELSE IF firstOctet >= 128 /\ firstOctet <= 191 THEN "B"
  ELSE IF firstOctet >= 192 /\ firstOctet <= 223 THEN "C"
  ELSE IF firstOctet >= 224 /\ firstOctet <= 239 THEN "D (Multicast)"
  ELSE IF firstOctet >= 240 /\ firstOctet <= 255 THEN "E (Reserved)"
  ELSE ""

\* Calculate IPv4 subnet information
CalculateIPv4Subnet(ip, cidr) ==
  IF cidr < 0 \/ cidr > 32 THEN Null
  ELSE
    LET ipParts == Split(ip, ".")
    IN IF Len(ipParts) # 4 THEN Null
       ELSE
         LET octets == [i \in 1..4 |-> ParseOctet(ipParts[i])]
         IN IF \E i \in 1..4 : octets[i] = NullOctet THEN Null
            ELSE
              LET ipInt        == OctetsToInt(octets)
                  hostBits     == 32 - cidr
                  subnetMask   == SubnetMaskInt(hostBits)
                  networkInt   == AndW(ipInt, subnetMask)
                  broadcastInt == BroadcastInt(networkInt, cidr)
                  network      == IntToIPv4(networkInt)
                  firstHostInt == AddW(networkInt, 1)
                  lastHostInt  == AddW(broadcastInt, 0 - 1)
                  totalHosts   == Pow2Count(hostBits)
              IN [ network      |-> network,
                   broadcast    |-> IntToIPv4(broadcastInt),
                   firstHost    |-> IF hostBits > 1 THEN IntToIPv4(firstHostInt) ELSE network,
                   lastHost     |-> IF hostBits > 1 THEN IntToIPv4(lastHostInt) ELSE network,
                   subnetMask   |-> IntToIPv4(subnetMask),
                   wildcardMask |-> IntToIPv4(NotW(subnetMask)),
                   totalHosts   |-> totalHosts,
                   usableHosts  |-> UsableCount(totalHosts, hostBits),
                   cidr         |-> cidr,
                   ipVersion    |-> 4,
                   networkClass |-> NetworkClass(octets[1]),
                   isPrivate    |-> IsPrivateIPv4(networkInt) ]

(***************************************************************************)
(* Utils: IPv6                                                             *)
(***************************************************************************)

\* parts.map(part => part.padStart(4, '0'))
PadParts(parts) == [i \in 1..Len(parts) |-> PadStart(parts[i], 4, "0")]

\* null, where a function returns it instead of a string; no expanded
\* address is this text.
NullText == "null"

\* Helper function to expand IPv6 address to full form. Array(missingParts)
\* throws for a negative length, which the function catches to return null.
ExpandIPv6(ip) ==
  IF Includes(ip, "::")
  THEN LET parts == Split(ip, "::")
       IN IF Len(parts) > 2 THEN NullText
          ELSE
            LET leftParts    == IF parts[1] # "" THEN Split(parts[1], ":") ELSE <<>>
                rightParts   == IF parts[2] # "" THEN Split(parts[2], ":") ELSE <<>>
                missingParts == 8 - Len(leftParts) - Len(rightParts)
            IN IF missingParts < 0 THEN NullText
               ELSE Join(PadParts(leftParts \o [i \in 1..missingParts |-> "0000"] \o rightParts), ":")
  ELSE LET parts == Split(ip, ":")
       IN IF Len(parts) # 8 THEN NullText ELSE Join(PadParts(parts), ":")

\* The group mask shifted by the bits inside the prefix instead of the bits
\* outside it.
GroupMask_ShiftByPrefixBits(remainingBits) ==
  ((TwoPow16 - 1) * 2^remainingBits) % TwoPow16

\* (0xFFFF << (16 - remainingBits)) & 0xFFFF
GroupMask(remainingBits) == ((TwoPow16 - 1) * 2^(16 - remainingBits)) % TwoPow16

\* x & mask for a number x that may be NaN and a 16-bit mask
MaskGroup(x, mask) == BitAnd16(ToInt32(x) % TwoPow16, mask)

\* The loop of calculateIPv6Network from group i (counted from 1) on.
RECURSIVE NetworkParts(_, _, _)
NetworkParts(parts, i, remainingBits) ==
  IF i > 8 THEN <<>>
  ELSE IF remainingBits >= 16
       THEN <<parts[i]>> \o NetworkParts(parts, i + 1, remainingBits - 16)
  ELSE IF remainingBits > 0
       THEN LET hexVal     == ParseInt(parts[i], 16)
                networkVal == MaskGroup(hexVal, GroupMask(remainingBits))
            IN <<PadStart(NumToString(networkVal, 16), 4, "0")>> \o NetworkParts(parts, i + 1, 0)
  ELSE <<"0000">> \o NetworkParts(parts, i + 1, remainingBits)

\* Helper function to calculate IPv6 network address
CalculateIPv6Network(expandedIP, cidr) ==
  Join(NetworkParts(Split(expandedIP, ":"), 1, cidr), ":")

\* Helper function to check if IPv6 is private
IsPrivateIPv6(expandedIP) ==
  \/ StartsWith(expandedIP, "fd")
  \/ StartsWith(expandedIP, "fc")
  \/ StartsWith(expandedIP, "fe80")
  \/ expandedIP = "0000:0000:0000:0000:0000:0000:0000:0001"

\* Calculate IPv6 subnet information
CalculateIPv6Subnet(ip, cidr) ==
  IF cidr < 0 \/ cidr > 128 THEN Null
  ELSE
    LET expandedIP == ExpandIPv6(ip)
    IN IF expandedIP = NullText THEN Null
       ELSE
         LET network    == CalculateIPv6Network(expandedIP, cidr)
             hostBits   == 128 - cidr
             totalHosts == IF hostBits >= 64 THEN MaxSafeInteger ELSE Pow2Count(hostBits)
         IN [ network     |-> network,
              firstHost   |-> network,
              lastHost    |-> network,
              totalHosts  |-> totalHosts,
              usableHosts |-> UsableCount(totalHosts, hostBits),
              cidr        |-> cidr,
              ipVersion   |-> 6,
              isPrivate   |-> IsPrivateIPv6(expandedIP),
              prefix      |-> network \o "/" \o NumToString(cidr, 10) ]

(***************************************************************************)
(* Utils.processInput                                                      *)
(***************************************************************************)

\* calculateSubnet with the host length of IPv4 assumed for every text
\* without a prefix length.
CalculateSubnet_AlwaysHost32(input) ==
  LET parts == Split(input, "/")
      slash == Includes(input, "/")
      ipStr == IF slash THEN parts[1] ELSE input
      cidr  == IF slash THEN ParseInt(parts[2], 10) ELSE 32
  IN IF cidr = NaN THEN Null
     ELSE IF Includes(ipStr, ":") THEN CalculateIPv6Subnet(ipStr, cidr)
     ELSE CalculateIPv4Subnet(ipStr, cidr)

\* Calculate subnet information from IP/CIDR input
CalculateSubnet(input) ==
  LET parts == Split(input, "/")
      slash == Includes(input, "/")
      ipStr == IF slash THEN parts[1] ELSE input
      cidr  == IF slash THEN ParseInt(parts[2], 10)
               ELSE IF Includes(ipStr, ":") THEN 128 ELSE 32
  IN IF cidr = NaN THEN Null
     ELSE IF Includes(ipStr, ":") THEN CalculateIPv6Subnet(ipStr, cidr)
     ELSE CalculateIPv4Subnet(ipStr, cidr)

\* processInput returning early on an empty text without an error field.
ProcessInput_SilentOnEmpty(input) ==
  IF Trim(input) = ""
  THEN [input |-> ""]
  ELSE LET subnetInfo == CalculateSubnet(Trim(input))
       IN IF subnetInfo = Null
          THEN [input |-> input, error |-> "Invalid IP address or CIDR notation"]
          ELSE [input |-> input, subnetInfo |-> subnetInfo]

\* Main subnet calculation function. The ProcessResult carries the field
\* error or the field subnetInfo, as the object literals of the code do.
ProcessInput(input) ==
  IF Trim(input) = ""
  THEN [input |-> "", error |-> "IP address cannot be empty"]
  ELSE LET subnetInfo == CalculateSubnet(Trim(input))
       IN IF subnetInfo = Null
          THEN [input |-> input, error |-> "Invalid IP address or CIDR notation"]
          ELSE [input |-> input, subnetInfo |-> subnetInfo]

(***************************************************************************)
(* Utils.isIPInSubnet                                                      *)
(***************************************************************************)

\* parts.map(part => parseInt(part, radix))
ParseParts(parts, radix) == [i \in 1..Len(parts) |-> ParseInt(parts[i], radix)]

\* a !== b on numbers: NaN differs from every number, itself included.
StrictNotEqual(a, b) == a = NaN \/ b = NaN \/ a # b

\* Check if IPv4 address is in subnet
IsIPv4InSubnet(ip, subnetInfo) ==
  LET ipParts == Split(ip, ".")
  IN IF Len(ipParts) # 4
     THEN [result |-> FALSE, error |-> "Invalid IPv4 address format"]
     ELSE
       LET octets == [i \in 1..4 |-> ParseOctet(ipParts[i])]
       IN IF \E i \in 1..4 : octets[i] = NullOctet
          THEN [result |-> FALSE, error |-> "Invalid IPv4 address"]
          ELSE
            LET ipInt         == OctetsToInt(octets)
                networkOctets == ParseParts(Split(subnetInfo.network, "."), 10)
                networkInt    == OctetsToInt(networkOctets)
                hostBits      == 32 - subnetInfo.cidr
                subnetMask    == SubnetMaskInt(hostBits)
                ipNetwork     == AndW(ipInt, subnetMask)
                targetNetwork == AndW(networkInt, subnetMask)
            IN [result |-> ipNetwork = targetNetwork]

\* The prefix-bit loop of isIPv6InSubnet from group i (counted from 1) on:
\* TRUE when no compared group differs.
RECURSIVE PrefixBitsMatch(_, _, _, _)
PrefixBitsMatch(ipParts, networkParts, i, remainingBits) ==
  IF i > 8 THEN TRUE
  ELSE IF remainingBits >= 16
       THEN IF StrictNotEqual(ipParts[i], networkParts[i]) THEN FALSE
            ELSE PrefixBitsMatch(ipParts, networkParts, i + 1, remainingBits - 16)
  ELSE IF remainingBits > 0
       THEN LET mask == GroupMask(remainingBits)
            IN MaskGroup(ipParts[i], mask) = MaskGroup(networkParts[i], mask)
  ELSE TRUE

\* Check if IPv6 address is in subnet
IsIPv6InSubnet(ip, subnetInfo) ==
  LET expandedIP      == ExpandIPv6(ip)
      expandedNetwork == ExpandIPv6(subnetInfo.network)
  IN IF expandedIP = NullText \/ expandedNetwork = NullText
     THEN [result |-> FALSE, error |-> "Invalid IPv6 address format"]
     ELSE
       LET ipParts      == ParseParts(Split(expandedIP, ":"), 16)
           networkParts == ParseParts(Split(expandedNetwork, ":"), 16)
       IN [result |-> PrefixBitsMatch(ipParts, networkParts, 1, subnetInfo.cidr)]

\* Check if an IP address is within a given subnet
IsIPInSubnet(ip, subnetInfo) ==
  LET cleanIP == IF Includes(ip, "/") THEN Split(ip, "/")[1] ELSE ip
  IN IF subnetInfo.ipVersion = 4
     THEN IsIPv4InSubnet(cleanIP, subnetInfo)
     ELSE IsIPv6InSubnet(cleanIP, subnetInfo)

(***************************************************************************)
(* Utils.generateSubnetList                                                *)
(***************************************************************************)

\* Limit to 256 subnets for display
MaxDisplayLimit == 256

\* The list length without the display limit.
MaxDisplay_Unlimited(bitsAdded) == 2^bitsAdded

\* Math.min(Math.pow(2, bitsAdded), 256): from 2^8 on the minimum is 256.
MaxDisplay(bitsAdded) == IF bitsAdded >= 8 THEN MaxDisplayLimit ELSE 2^bitsAdded

\* x + y on numbers that may be NaN
NumAdd(x, y) == IF x = NaN \/ y = NaN THEN NaN ELSE x + y

\* The inner loop of the IPv6 branch from group j (counted from 0) down:
\* the groups after adding the increments.
RECURSIVE AddIncrement(_, _, _, _)
AddIncrement(newParts, j, carry, bitsInPart) ==
  IF j >= 0 /\ carry > 0
  THEN LET increment == carry * 2^(16 - bitsInPart)
           sum       == ToInt32(NumAdd(newParts[j + 1], increment)) % TwoPow16
       IN AddIncrement([newParts EXCEPT ![j + 1] = sum], j - 1,
                       carry \div 2^bitsInPart, bitsInPart)
  ELSE newParts

\* newParts.map(part => part.toString(16).padStart(4, '0')).join(':')
FormatParts(newParts) ==
  Join([k \in 1..Len(newParts) |-> PadStart(NumToString(newParts[k], 16), 4, "0")], ":")

\* Generate list of subnets when subnetting (splitting into smaller networks)
GenerateSubnetList(originalSubnet, newCidr) ==
  IF newCidr <= originalSubnet.cidr THEN <<>>
  ELSE
    LET bitsAdded  == newCidr - originalSubnet.cidr
        maxDisplay == MaxDisplay(bitsAdded)
        suffix     == "/" \o NumToString(newCidr, 10)
    IN IF originalSubnet.ipVersion = 4
       THEN LET networkOctets == ParseParts(Split(originalSubnet.network, "."), 10)
                networkInt    == OctetsToInt(networkOctets)
                hostBits      == 32 - newCidr
                subnetSize    == Pow2W(hostBits)
            IN [n \in 1..maxDisplay |->
                  IntToIPv4(AddMulW(networkInt, n - 1, subnetSize)) \o suffix]
       ELSE LET expandedNetwork == ExpandIPv6(originalSubnet.network)
            IN IF expandedNetwork = NullText THEN <<>>
               ELSE
                 LET baseParts     == ParseParts(Split(expandedNetwork, ":"), 16)
                     incrementPart == (newCidr - 1) \div 16
                     bitsInPart    == newCidr % 16
                 IN [n \in 1..maxDisplay |->
                       FormatParts(AddIncrement(baseParts, incrementPart, n - 1, bitsInPart))
                         \o suffix]

(***************************************************************************)
(* App.compressIPv6                                                        *)
(***************************************************************************)

\* The characters \w of a regular expression
WordChars == "0123456789abcdefghijklmnopqrstuvwxyzABCDEFGHIJKLMNOPQRSTUVWXYZ_"

IsWordChar(c) == IndexOf(WordChars, c) # 0

\* The first position from i on where s has another character than c
RECURSIVE SkipChar(_, _, _)
SkipChar(s, i, c) == IF i <= Len(s) /\ CharAt(s, i) = c THEN SkipChar(s, i + 1, c) ELSE i

\* s.replace(/\b0+/g, '') from position i on; afterWord tells whether the
\* character before position i is a word character.
RECURSIVE StripZerosAtWordStart(_, _, _)
StripZerosAtWordStart(s, i, afterWord) ==
  IF i > Len(s) THEN ""
  ELSE IF CharAt(s, i) = "0" /\ ~afterWord
       THEN StripZerosAtWordStart(s, SkipChar(s, i, "0"), TRUE)
  ELSE CharAt(s, i) \o StripZerosAtWordStart(s, i + 1, IsWordChar(CharAt(s, i)))

\* s.replace(/:0+/g, ':') from position i on
RECURSIVE DropZerosAfterColon(_, _)
DropZerosAfterColon(s, i) ==
  IF i > Len(s) THEN ""
  ELSE IF CharAt(s, i) = ":" /\ i < Len(s) /\ CharAt(s, i + 1) = "0"
       THEN ":" \o DropZerosAfterColon(s, SkipChar(s, i + 1, "0"))
  ELSE CharAt(s, i) \o DropZerosAfterColon(s, i + 1)

\* s.replace(/::+/g, '::') from position i on
RECURSIVE CollapseColons(_, _)
CollapseColons(s, i) ==
  IF i > Len(s) THEN ""
  ELSE IF CharAt(s, i) = ":" /\ i < Len(s) /\ CharAt(s, i + 1) = ":"
       THEN "::" \o CollapseColons(s, SkipChar(s, i, ":"))
  ELSE CharAt(s, i) \o CollapseColons(s, i + 1)

\* Helper method to compress IPv6 addresses
CompressIPv6(ipv6) ==
  CollapseColons(DropZerosAfterColon(StripZerosAtWordStart(ipv6, 1, FALSE), 1), 1)

(***************************************************************************)
(* Inputs                                                                  *)
(***************************************************************************)

\* The largest newCidr - cidr a list is generated for: one past the 8 bits
\* at which the display limit starts to cut the list.
MaxBitsAdded == 9

\* IPv4 addresses in canonical text, each with its four octets: those each
\* prefix length is applied to
V4SweptTable ==
  { <<"192.168.1.100", <<192, 168, 1, 100>> >>, <<"10.0.0.0", <<10, 0, 0, 0>> >>,
    <<"172.16.5.4", <<172, 16, 5, 4>> >>, <<"128.0.0.1", <<128, 0, 0, 1>> >>,
    <<"255.255.255.255", <<255, 255, 255, 255>> >> }

\* Further IPv4 addresses
V4OthersTable ==
  { <<"192.168.1.0", <<192, 168, 1, 0>> >>, <<"192.168.1.200", <<192, 168, 1, 200>> >>,
    <<"192.168.2.0", <<192, 168, 2, 0>> >>, <<"11.0.0.0", <<11, 0, 0, 0>> >>,
    <<"127.0.0.1", <<127, 0, 0, 1>> >>, <<"0.0.0.0", <<0, 0, 0, 0>> >>,
    <<"224.0.0.1", <<224, 0, 0, 1>> >>, <<"240.1.2.3", <<240, 1, 2, 3>> >> }

V4Table == V4SweptTable \cup V4OthersTable

V4Swept == {e[1] : e \in V4SweptTable}

V4Others == {e[1] : e \in V4OthersTable}

\* Prefix lengths applied to the addresses of V4Others
V4FewCidrs == {0, 1, 24, 26, 31, 32}

V4Addresses == {e[1] : e \in V4Table}

\* IPv6 addresses each prefix length is applied to, each with its eight groups
V6SweptTable ==
  { <<"ffff:ffff:ffff:ffff:ffff:ffff:ffff:ffff",
      <<65535, 65535, 65535, 65535, 65535, 65535, 65535, 65535>> >>,
    <<"2001:db8:abcd:12:ff00::", <<8193, 3512, 43981, 18, 65280, 0, 0, 0>> >> }

\* Further IPv6 addresses, compressed and full, in either letter case
V6OthersTable ==
  { <<"2001:db8::", <<8193, 3512, 0, 0, 0, 0, 0, 0>> >>,
    <<"2001:db8::1", <<8193, 3512, 0, 0, 0, 0, 0, 1>> >>,
    <<"2001:db9::1", <<8193, 3513, 0, 0, 0, 0, 0, 1>> >>,
    <<"::1", <<0, 0, 0, 0, 0, 0, 0, 1>> >>,
    <<"::", <<0, 0, 0, 0, 0, 0, 0, 0>> >>,
    <<"fe80::1", <<65152, 0, 0, 0, 0, 0, 0, 1>> >>,
    <<"febf::1", <<65215, 0, 0, 0, 0, 0, 0, 1>> >>,
    <<"fd00::1", <<64768, 0, 0, 0, 0, 0, 0, 1>> >>,
    <<"FD00::1", <<64768, 0, 0, 0, 0, 0, 0, 1>> >>,
    <<"fc00::", <<64512, 0, 0, 0, 0, 0, 0, 0>> >>,
    <<"2001:0db8:0000:0000:0000:0000:0000:0001", <<8193, 3512, 0, 0, 0, 0, 0, 1>> >>,
    <<"1:2:3:4:5:6:7:8", <<1, 2, 3, 4, 5, 6, 7, 8>> >>,
    <<"2001:db8:0:0:1:0:0:1", <<8193, 3512, 0, 0, 1, 0, 0, 1>> >>,
    <<"0:1:2:3:4:5:6:7", <<0, 1, 2, 3, 4, 5, 6, 7>> >> }

V6Table == V6SweptTable \cup V6OthersTable

V6Swept == {e[1] : e \in V6SweptTable}

V6Others == {e[1] : e \in V6OthersTable}

V6Addresses == V6Swept \cup V6Others

\* Prefix lengths applied to the addresses of V6Others
V6FewCidrs == {0, 10, 32, 46, 59, 64, 127, 128}

Slash(n) == "/" \o NumToString(n, 10)

\* Texts of an address with and without a prefix length in range
WellFormedInputs ==
  V4Addresses \cup V6Addresses
    \cup {a \o Slash(n) : a \in V4Swept, n \in 0..32}
    \cup {a \o Slash(n) : a \in V4Others, n \in V4FewCidrs}
    \cup {a \o Slash(n) : a \in V6Swept, n \in 0..128}
    \cup {a \o Slash(n) : a \in V6Others, n \in V6FewCidrs}

\* Address texts that are not four decimal octets or eight hex groups
OddAddresses ==
  { "1.2.3.4abc", "1.2.3.+4", "1.2.3", "1.2.3.4.5", "1.2.3.256", "1.2.3.-1", "1.2..4",
    "1.2.3.1e2", "1. 2.3.4", "1.2.3.x", "abc", "gggg::1", "12345::", "1::2::3", "1:2:3",
    "1:2:3:4:5:6:7:8:9", "1:2:3:4:5:6:7:8:9::", "1:2::x" }

\* Prefix-length texts that are not an integer in range
OddSuffixes == { "/", "/abc", "/24abc", "/24/25", "/33", "/129", "/-1", "/ 8", "/8.5", "/+8" }

OddInputs ==
  { "", "  ", " 10.0.0.0/8 " }
    \cup OddAddresses \cup {a \o "/24" : a \in OddAddresses}
    \cup {a \o x : a \in {"10.1.2.3", "2001:db8::1"}, x \in OddSuffixes}

\* The texts given to processInput
MainInputs == WellFormedInputs \cup OddInputs

\* Prefixes given to isIPInSubnet as the compared text, each with the octets
\* or groups of its first address and its prefix length
CheckPrefixTable ==
  { <<"192.168.1.0/25", <<192, 168, 1, 0>>, 25>>,
    <<"192.168.0.0/16", <<192, 168, 0, 0>>, 16>>,
    <<"10.0.0.0/8", <<10, 0, 0, 0>>, 8>>,
    <<"2001:db8::/32", <<8193, 3512, 0, 0, 0, 0, 0, 0>>, 32>>,
    <<"2001:db8::/127", <<8193, 3512, 0, 0, 0, 0, 0, 0>>, 127>> }

CheckPrefixes == {e[1] : e \in CheckPrefixTable}

\* IPv6 addresses written with a dotted IPv4 tail
V6DottedTail == { "64:ff9b::10.0.0.1", "::ffff:10.0.0.1" }

\* The texts given to isIPInSubnet
CheckInputs ==
  V4Addresses \cup V6Addresses \cup CheckPrefixes \cup V6DottedTail
    \cup { "1.2.3", "1.2.3.999", "1.2.3.4abc", "gggg::1", "1::2::3", "" }

(***************************************************************************)
(* State                                                                   *)
(***************************************************************************)

VARIABLES
  input,    \* the text given to processInput
  result,   \* the ProcessResult it returned (Null until it has)
  call,     \* the isIPInSubnet or generateSubnetList call made on
            \* result.subnetInfo, with its return value
  mainInput,         \* App: the value of the main input field
  subnetCheckInput,  \* App: the value of the check input field
  subnetShiftInput,  \* App: the value of the shift input field
  lastSubnetInfo,    \* App: the field lastSubnetInfo
  resultsDiv,        \* App: what the results container shows
  label,     \* the textContent of one copy button
  awaiting,  \* clicks on it whose clipboard write has not settled
  timers,    \* the orig of each reset timer set and not yet fired, oldest first
  clicks     \* clicks made on it

utilsVars == <<input, result, call>>

appVars == <<mainInput, subnetCheckInput, subnetShiftInput, lastSubnetInfo, resultsDiv>>

copyVars == <<label, awaiting, timers, clicks>>

vars == <<utilsVars, appVars, copyVars>>

NoCall == [op |-> "none"]

HasSubnetInfo == "subnetInfo" \in DOMAIN result

\* The functions of Utils are static and keep no state: a behaviour is one
\* input text, its ProcessResult, and one call on the SubnetInfo obtained.
\* undefined, the value of a field an object does not have
Undefined == [undefined |-> TRUE]

\* The results container before anything is shown in it
Hidden == [kind |-> "none"]

\* The App as constructed: empty input fields, lastSubnetInfo = null
AppInit ==
  /\ mainInput = ""
  /\ subnetCheckInput = ""
  /\ subnetShiftInput = ""
  /\ lastSubnetInfo = Null
  /\ resultsDiv = Hidden

\* A copy button as rendered, never clicked
CopyInit ==
  /\ label = "Copy"
  /\ awaiting = 0
  /\ timers = <<>>
  /\ clicks = 0

Init ==
  /\ input \in MainInputs
  /\ result = Null
  /\ call = NoCall
  /\ AppInit
  /\ CopyInit

\* Utils.processInput(input)
DoProcessInput ==
  /\ result = Null
  /\ result' = ProcessInput(input)
  /\ UNCHANGED <<input, call, appVars, copyVars>>

\* Utils.isIPInSubnet(ip, subnetInfo) on the SubnetInfo computed
DoIsIPInSubnet ==
  /\ HasSubnetInfo
  /\ call = NoCall
  /\ \E ip \in CheckInputs :
       call' = [op |-> "isIPInSubnet", ip |-> ip, ret |-> IsIPInSubnet(ip, result.subnetInfo)]
  /\ UNCHANGED <<input, result, appVars, copyVars>>

\* The largest prefix length of the version of subnetInfo
MaxCidr(subnetInfo) == IF subnetInfo.ipVersion = 4 THEN 32 ELSE 128

\* Utils.generateSubnetList(subnetInfo, newCidr) on the SubnetInfo computed
DoGenerateSubnetList ==
  /\ HasSubnetInfo
  /\ call = NoCall
  /\ \E newCidr \in 0..MaxCidr(result.subnetInfo) :
       /\ newCidr >= result.subnetInfo.cidr - 1
       /\ newCidr <= result.subnetInfo.cidr + MaxBitsAdded
       /\ call' = [op |-> "generateSubnetList", newCidr |-> newCidr,
                   ret |-> GenerateSubnetList(result.subnetInfo, newCidr)]
  /\ UNCHANGED <<input, result, appVars, copyVars>>

\* App.generateCalculationResult(input, 'IPv6 Compression') past its call of
\* processInput: compressIPv6 on the network of an IPv6 SubnetInfo
DoCompressIPv6 ==
  /\ HasSubnetInfo
  /\ call = NoCall
  /\ result.subnetInfo.ipVersion = 6
  /\ call' = [op |-> "compressIPv6", ret |-> CompressIPv6(result.subnetInfo.network)]
  /\ UNCHANGED <<input, result, appVars, copyVars>>

Next == DoProcessInput \/ DoIsIPInSubnet \/ DoGenerateSubnetList \/ DoCompressIPv6

Spec == Init /\ [][Next]_vars

(***************************************************************************)
(* App: the click listener of attachCopyHandlers on one copy button        *)
(***************************************************************************)

\* The most clicks made on the button
MaxClicks == 4

\* A click on the button: the listener runs up to its await of
\* Utils.copyToClipboard.
Click ==
  /\ clicks < MaxClicks
  /\ clicks' = clicks + 1
  /\ awaiting' = awaiting + 1
  /\ UNCHANGED <<label, timers, utilsVars, appVars>>

\* Utils.copyToClipboard settles with success or without, and the listener
\* runs on from its await: it reads the label into orig, shows the outcome
\* and sets the timer of 2000 ms.
CopySettles ==
  /\ awaiting > 0
  /\ \E success \in BOOLEAN :
       /\ label' = IF success THEN "Copied!" ELSE "Failed"
       /\ timers' = Append(timers, label)
       /\ awaiting' = awaiting - 1
  /\ UNCHANGED <<clicks, utilsVars, appVars>>

\* The oldest timer fires: target.textContent = orig || 'Copy'. The timers
\* all wait 2000 ms, so they fire in the order they were set.
TimerFires ==
  /\ timers # <<>>
  /\ label' = IF Head(timers) = "" THEN "Copy" ELSE Head(timers)
  /\ timers' = Tail(timers)
  /\ UNCHANGED <<awaiting, clicks, utilsVars, appVars>>

InitCopy ==
  /\ input = ""
  /\ result = Null
  /\ call = NoCall
  /\ AppInit
  /\ CopyInit

NextCopy == Click \/ CopySettles \/ TimerFires

SpecCopy == InitCopy /\ [][NextCopy]_vars

(***************************************************************************)
(* App.handleProcess                                                       *)
(***************************************************************************)

\* The texts typed into the main, check and shift input fields
AppMainInputs ==
  { "", "  ", "10.0.0.0/23", " 192.168.1.0/24 ", "2001:db8::/32", "10.1.2.3", "1.2.3", "abc" }

AppCheckInputs == { "", "10.1.2.3", "2001:db8::1", "1.2.3" }

AppShiftInputs == { "", "10", "26", "34", "abc", "200" }

\* showError(message)
ShowError(message) == [kind |-> "error", message |-> message]

\* result.subnetInfo
SubnetInfoOf(processResult) ==
  IF "subnetInfo" \in DOMAIN processResult THEN processResult.subnetInfo ELSE Undefined

\* The subnet list displayShiftedResult and displayFullResult render
ShownList(original, shifted) ==
  IF shifted.cidr > original.cidr THEN GenerateSubnetList(original, shifted.cidr) ELSE <<>>

\* What handleProcess shows past its error test of the main result: info is
\* lastSubnetInfo, newCidr the parsed shift text, shiftedResult the
\* ProcessResult of the shifted input, isInSubnet the check made and list
\* the subnet list, the last three read only where the code computes them.
Display(info, shifting, newCidr, shiftedResult, checking, isInSubnet, list) ==
  IF shifting /\ newCidr = NaN
  THEN ShowError("Please enter a valid CIDR number (0-32 for IPv4, 0-128 for IPv6)")
  ELSE IF shifting /\ (newCidr < 0 \/ newCidr > MaxCidr(info))
  THEN ShowError("CIDR must be between 0 and " \o NumToString(MaxCidr(info), 10)
                   \o " for IPv" \o NumToString(info.ipVersion, 10))
  ELSE IF shifting /\ "error" \in DOMAIN shiftedResult
  THEN ShowError(shiftedResult.error)
  ELSE IF checking /\ "error" \in DOMAIN isInSubnet
  THEN ShowError(isInSubnet.error)
  ELSE IF shifting /\ checking
  THEN [kind |-> "full", original |-> info, shifted |-> shiftedResult.subnetInfo,
        within |-> isInSubnet.result, list |-> list]
  ELSE IF shifting
  THEN [kind |-> "shifted", original |-> info, shifted |-> shiftedResult.subnetInfo,
        list |-> list]
  ELSE IF checking
  THEN [kind |-> "combined", original |-> info, within |-> isInSubnet.result]
  ELSE [kind |-> "result", original |-> info]

\* The shift text asks for a prefix length the code goes on with
ShiftInRange(info, shiftCidrText, newCidr) ==
  shiftCidrText # "" /\ newCidr # NaN /\ newCidr >= 0 /\ newCidr <= MaxCidr(info)

\* The shifted input `${baseIp}/${newCidr}`, empty where the code builds none
ShiftedInput(info, shiftCidrText, newCidr) ==
  IF ShiftInRange(info, shiftCidrText, newCidr)
  THEN info.network \o "/" \o NumToString(newCidr, 10)
  ELSE ""

\* The ProcessResults of handleProcess, in the order it asks for them: that
\* of the main text, then that of the shifted input built from the main
\* text's subnet. Where the main text has no subnet the handler stops at the
\* first, which stands in for the second.
RECURSIVE ProcessResults(_, _, _)
ThenShifted(processResult, shiftCidrText, further) ==
  IF further = 0 THEN <<processResult>>
  ELSE IF "subnetInfo" \in DOMAIN processResult
  THEN <<processResult>>
         \o ProcessResults(ShiftedInput(processResult.subnetInfo, shiftCidrText,
                                        ParseInt(shiftCidrText, 10)),
                           shiftCidrText, further - 1)
  ELSE <<processResult, processResult>>

ProcessResults(text, shiftCidrText, further) ==
  ThenShifted(ProcessInput(text), shiftCidrText, further)

\* handleProcess past its test for an empty main text. Each value the
\* handler computes is bound once; one it does not compute on a path is
\* bound to a value that path never reads.
ProcessAndDisplay(inputText, checkIpText, shiftCidrText) ==
  \E results \in {ProcessResults(inputText, shiftCidrText, 1)} :
    \E processResult \in {results[1]}, shiftedResult \in {results[2]} :
      /\ lastSubnetInfo' = SubnetInfoOf(processResult)
      /\ IF "error" \in DOMAIN processResult
         THEN resultsDiv' = ShowError(processResult.error)
         ELSE
           \E info \in {processResult.subnetInfo}, newCidr \in {ParseInt(shiftCidrText, 10)} :
             \E isInSubnet \in {IsIPInSubnet(checkIpText, info)},
                shifted \in {SubnetInfoOf(shiftedResult)} :
               \E list \in {IF shifted = Undefined THEN <<>> ELSE ShownList(info, shifted)} :
                 resultsDiv' = Display(info, shiftCidrText # "", newCidr, shiftedResult,
                                       checkIpText # "", isInSubnet, list)

\* The fields are edited to main, check and shift, and handleProcess runs.
HandleProcess ==
  /\ \E main \in AppMainInputs, check \in AppCheckInputs, shift \in AppShiftInputs :
       /\ mainInput' = main
       /\ subnetCheckInput' = check
       /\ subnetShiftInput' = shift
       /\ \E inputText \in {Trim(main)}, checkIpText \in {Trim(check)},
             shiftCidrText \in {Trim(shift)} :
            IF inputText = ""
            THEN /\ resultsDiv' = ShowError("Please enter an IP address (e.g., 192.168.1.0/24 or just 192.168.1.1)")
                 /\ UNCHANGED lastSubnetInfo
            ELSE ProcessAndDisplay(inputText, checkIpText, shiftCidrText)
  /\ UNCHANGED <<utilsVars, copyVars>>

InitApp ==
  /\ input = ""
  /\ result = Null
  /\ call = NoCall
  /\ AppInit
  /\ CopyInit

NextApp == HandleProcess

SpecApp == InitApp /\ [][NextApp]_vars

(***************************************************************************)
(* What the claims speak of: strict syntax and address arithmetic, stated  *)
(* without the functions of Utils                                          *)
(***************************************************************************)

Processed == result # Null

Failed == "error" \in DOMAIN result

Info == result.subnetInfo

\* The text processInput works on, and its parts around the first "/"
Trimmed == Trim(input)

HasSlash == Includes(Trimmed, "/")

AddressText == IF HasSlash THEN SubSeq(Trimmed, 1, IndexOf(Trimmed, "/") - 1) ELSE Trimmed

CidrText == SubSeq(Trimmed, IndexOf(Trimmed, "/") + 1, Len(Trimmed))

IsV6Text == Includes(AddressText, ":")

CharIn(c, alphabet) == \E i \in 1..Len(alphabet) : CharAt(alphabet, i) = c

AllIn(s, alphabet) == Len(s) > 0 /\ \A i \in 1..Len(s) : CharIn(CharAt(s, i), alphabet)

PlaceIn(c, alphabet) == (CHOOSE i \in 1..Len(alphabet) : CharAt(alphabet, i) = c) - 1

\* The number a text of decimal digits denotes
RECURSIVE DecimalOf(_)
DecimalOf(s) ==
  IF Len(s) = 0 THEN 0
  ELSE DecimalOf(SubSeq(s, 1, Len(s) - 1)) * 10 + PlaceIn(CharAt(s, Len(s)), "0123456789")

\* The number a text of hexadecimal digits denotes
RECURSIVE HexOf(_)
HexOf(s) ==
  IF Len(s) = 0 THEN 0
  ELSE HexOf(SubSeq(s, 1, Len(s) - 1)) * 16
         + (PlaceIn(CharAt(s, Len(s)), "0123456789abcdef0123456789ABCDEF") % 16)

\* A decimal number of at most 9 digits and at most max
IsDecimalUpTo(s, max) == AllIn(s, "0123456789") /\ Len(s) <= 9 /\ DecimalOf(s) <= max

\* Exactly four dot-separated segments of decimal digits, each in 0..255
StrictIPv4(a) ==
  LET segs == Split(a, ".")
  IN Len(segs) = 4 /\ \A i \in 1..4 : IsDecimalUpTo(segs[i], 255)

\* The groups of an IPv6 text: those left and right of its :: markers
RECURSIVE GroupsOf(_)
GroupsOf(sides) ==
  IF Len(sides) = 0 THEN <<>>
  ELSE (IF sides[1] = "" THEN <<>> ELSE Split(sides[1], ":")) \o GroupsOf(Tail(sides))

\* At most one ::, eight groups when there is none, each group 1 to 4 hex digits
StrictIPv6(a) ==
  LET sides  == Split(a, "::")
      groups == GroupsOf(sides)
  IN /\ Len(sides) <= 2
     /\ Len(sides) = 1 => Len(groups) = 8
     /\ \A i \in 1..Len(groups) :
          Len(groups[i]) <= 4 /\ AllIn(groups[i], "0123456789abcdefABCDEF")

\* A decimal integer, white space and one sign before it allowed
IsIntegerText(s) ==
  LET t == TrimStart(s)
      u == IF Len(t) > 0 /\ CharAt(t, 1) \in {"+", "-"} THEN SubSeq(t, 2, Len(t)) ELSE t
  IN AllIn(u, "0123456789") /\ Len(u) <= 9

IntegerOf(s) ==
  LET t == TrimStart(s)
  IN IF CharAt(t, 1) = "-" THEN 0 - DecimalOf(SubSeq(t, 2, Len(t)))
     ELSE IF CharAt(t, 1) = "+" THEN DecimalOf(SubSeq(t, 2, Len(t)))
     ELSE DecimalOf(t)

\* The octets of a dotted text and the groups of a full-form IPv6 text
OctetsOf(text) == LET segs == Split(text, ".") IN [i \in 1..4 |-> DecimalOf(segs[i])]

FullGroupsOf(text) == LET gs == Split(text, ":") IN [i \in 1..8 |-> HexOf(gs[i])]

Dotted(o) ==
  NatToString(o[1], 10) \o "." \o NatToString(o[2], 10) \o "."
    \o NatToString(o[3], 10) \o "." \o NatToString(o[4], 10)

Hex4(n) == PadStart(NatToString(n, 16), 4, "0")

FullForm(g) ==
  Hex4(g[1]) \o ":" \o Hex4(g[2]) \o ":" \o Hex4(g[3]) \o ":" \o Hex4(g[4]) \o ":"
    \o Hex4(g[5]) \o ":" \o Hex4(g[6]) \o ":" \o Hex4(g[7]) \o ":" \o Hex4(g[8])

\* Addresses as numbers in base 2^k digits, most significant first:
\* a < b, and a + amount * (2^k)^(Len(a) - i) with the carry out of digit 1
\* kept in digit 1, so that a sum past the address space shows as a digit
\* out of range.
RECURSIVE LessDigits(_, _, _)
LessDigits(a, b, i) ==
  IF i > Len(a) THEN FALSE
  ELSE IF a[i] # b[i] THEN a[i] < b[i]
  ELSE LessDigits(a, b, i + 1)

RECURSIVE AddAt(_, _, _, _)
AddAt(a, i, amount, base) ==
  IF amount = 0 THEN a
  ELSE IF i = 1 THEN [a EXCEPT ![1] = a[1] + amount]
  ELSE LET t == a[i] + amount
       IN AddAt([a EXCEPT ![i] = t % base], i - 1, t \div base, base)

InSpace(a, base) == \A i \in 1..Len(a) : a[i] >= 0 /\ a[i] < base

\* a + amount * 2^bit, for digits of width bits each
AddShifted(a, amount, bit, width) ==
  IF bit >= width * Len(a) THEN [a EXCEPT ![1] = a[1] + amount * 2^width]
  ELSE AddAt(a, Len(a) - (bit \div width), amount * 2^(bit % width), 2^width)

\* a - b for a >= b
RECURSIVE SubDigits(_, _, _, _)
SubDigits(a, b, i, base) ==
  IF i = 0 THEN a
  ELSE IF a[i] >= b[i] THEN SubDigits([a EXCEPT ![i] = a[i] - b[i]], b, i - 1, base)
  ELSE SubDigits([a EXCEPT ![i] = a[i] + base - b[i], ![i - 1] = a[i - 1] - 1], b, i - 1, base)

\* d < 2^bits, for digits of width bits each
BelowPow2(d, bits, width) ==
  \A i \in 1..Len(d) :
    LET low == width * (Len(d) - i)
    IN IF bits >= low + width THEN TRUE
       ELSE IF bits <= low THEN d[i] = 0
       ELSE d[i] < 2^(bits - low)

\* a = n + k for some 0 <= k < 2^hostBits
InBlock(a, n, hostBits, width) ==
  /\ ~LessDigits(a, n, 1)
  /\ BelowPow2(SubDigits(a, n, Len(a), 2^width), hostBits, width)

(***************************************************************************)
(* Claims                                                                  *)
(***************************************************************************)

IsCheck == call.op = "isIPInSubnet"

IsList == call.op = "generateSubnetList"

\* C1: for every valid IPv4 address A, A/0 yields network 0.0.0.0 and
\* broadcast 255.255.255.255, whatever A is.
C1_SlashZeroCoversAll ==
  \A a \in V4Addresses :
    (input = a \o "/0" /\ Processed) =>
      /\ ~Failed
      /\ Info.network = "0.0.0.0"
      /\ Info.broadcast = "255.255.255.255"

\* C2: for every valid IPv4 address A with prefix length 32, explicit or by
\* default, network = broadcast = firstHost = lastHost = A and usableHosts = 0.
C2_HostPrefixIsSingleAddress ==
  \A a \in V4Addresses :
    (input \in {a, a \o "/32"} /\ Processed) =>
      /\ ~Failed
      /\ Info.network = a
      /\ Info.broadcast = a
      /\ Info.firstHost = a
      /\ Info.lastHost = a
      /\ Info.usableHosts = ZeroCount

\* The verdict containment owes for candidate address ip against the prefix
\* computed: whether ip = network + k for some 0 <= k < 2^hostBits.
OwedVerdict(ip) ==
  IF Info.ipVersion = 4
  THEN LET a == (CHOOSE e \in V4Table : e[1] = ip)[2]
       IN InBlock(a, OctetsOf(Info.network), 32 - Info.cidr, 8)
  ELSE LET a == (CHOOSE e \in V6Table : e[1] = ip)[2]
       IN InBlock(a, FullGroupsOf(Info.network), 128 - Info.cidr, 16)

\* C3: for every prefix P produced by processInput and every address A of
\* the same version, isIPInSubnet(A, P).result is true if A = P.network + k
\* for some 0 <= k < 2^hostBits, and false for every other A.
C3_ContainmentIsBlockMembership ==
  (IsCheck /\ input \in WellFormedInputs
     /\ call.ip \in (IF Info.ipVersion = 4 THEN V4Addresses ELSE V6Addresses)) =>
    call.ret.result = OwedVerdict(call.ip)

\* C4: generateSubnetList(P, newCidr) is empty when newCidr <= P.cidr, has
\* exactly min(2^(newCidr - P.cidr), 256) entries otherwise, and never has
\* more than 256 entries, for IPv4 and IPv6 alike.
C4_ListLength ==
  IsList =>
    /\ Len(call.ret) <= 256
    /\ call.newCidr <= Info.cidr => Len(call.ret) = 0
    /\ call.newCidr > Info.cidr =>
         LET total == 2^(call.newCidr - Info.cidr)
         IN Len(call.ret) = IF total < 256 THEN total ELSE 256

\* C4 is met by an IPv6 list that the display limit has cut.
C4_Witness ==
  /\ IsList
  /\ Info.ipVersion = 6
  /\ call.newCidr - Info.cidr = 9
  /\ Len(call.ret) = 256

\* The address of list entry n: the text before its "/"
EntryAddress(n) == SubSeq(call.ret[n], 1, IndexOf(call.ret[n], "/") - 1)

\* C5: for every IPv4 prefix P and every newCidr with P.cidr < newCidr <= 32,
\* the i-th entry (from 0) is the address P.network + i * 2^(32 - newCidr)
\* with suffix /newCidr, and the entries are in strictly increasing address
\* order as unsigned 32-bit values.
C5_V4EntriesAscend ==
  (IsList /\ input \in WellFormedInputs /\ Info.ipVersion = 4 /\ call.newCidr > Info.cidr) =>
    \A n \in 1..Len(call.ret) :
      LET owed == AddShifted(OctetsOf(Info.network), n - 1, 32 - call.newCidr, 8)
      IN /\ InSpace(owed, 256)
         /\ call.ret[n] = Dotted(owed) \o Slash(call.newCidr)
         /\ n > 1 => LessDigits(OctetsOf(EntryAddress(n - 1)), OctetsOf(EntryAddress(n)), 1)

\* C6: for every IPv6 prefix P and every newCidr with P.cidr < newCidr <= 128,
\* the i-th entry (from 0, i < 256) is the 128-bit value
\* P.network + i * 2^(128 - newCidr), also when newCidr is a multiple of 16
\* and when i carries across a 16-bit group boundary.
C6_V6EntriesAscend ==
  (IsList /\ input \in WellFormedInputs /\ Info.ipVersion = 6 /\ call.newCidr > Info.cidr) =>
    \A n \in 1..Len(call.ret) :
      LET owed == AddShifted(FullGroupsOf(Info.network), n - 1, 128 - call.newCidr, 16)
      IN call.ret[n] = FullForm(owed) \o Slash(call.newCidr)

\* C7: IPv4 parsing accepts a text only if it is exactly four dot-separated
\* segments of decimal digits with value in 0..255; anything else makes
\* processInput return an error instead of a SubnetInfo.
C7_V4SyntaxIsStrict ==
  (Processed /\ ~IsV6Text /\ ~StrictIPv4(AddressText)) => Failed

\* C8: IPv6 parsing fails for every text with more than one ::, with no ::
\* and not exactly 8 groups, or with a group that is not 1 to 4 hexadecimal
\* digits; no such text yields a SubnetInfo.
C8_V6SyntaxIsStrict ==
  (Processed /\ IsV6Text /\ ~StrictIPv6(AddressText)) => Failed

\* C9: when the input contains a / and the text after it is not a valid
\* integer, or is an integer outside 0..32 (IPv4) or 0..128 (IPv6),
\* processInput returns an error and no SubnetInfo; a text with trailing
\* non-digit characters or a further /-separated part is no valid integer.
C9_PrefixLengthIsStrict ==
  (Processed /\ HasSlash
     /\ (~IsIntegerText(CidrText)
           \/ IntegerOf(CidrText) < 0
           \/ IntegerOf(CidrText) > (IF IsV6Text THEN 128 ELSE 32))) =>
    Failed

\* C10: for every valid address text without a /, processInput returns a
\* SubnetInfo whose cidr is 32 without a colon in the text and 128 with one,
\* and whose network is the input address.
C10_HostLengthByDefault ==
  /\ \A e \in V4Table :
       (input = e[1] /\ Processed) =>
         /\ ~Failed
         /\ Info.cidr = 32
         /\ Info.ipVersion = 4
         /\ OctetsOf(Info.network) = e[2]
  /\ \A e \in V6Table :
       (input = e[1] /\ Processed) =>
         /\ ~Failed
         /\ Info.cidr = 128
         /\ Info.ipVersion = 6
         /\ FullGroupsOf(Info.network) = e[2]

\* C10 is met by a compressed upper-case IPv6 text given without a /.
C10_Witness ==
  /\ input = "FD00::1"
  /\ Processed
  /\ ~Failed
  /\ Info.cidr = 128

\* The groups g with every bit after the first cidr bits cleared
ClearedBeyond(g, cidr) ==
  [i \in 1..8 |->
     LET kept == IF cidr >= 16 * i THEN 16
                 ELSE IF cidr <= 16 * (i - 1) THEN 0
                 ELSE cidr - 16 * (i - 1)
     IN g[i] - (g[i] % 2^(16 - kept))]

\* The groups of the IPv6 address of a well-formed input, and the prefix
\* length the input asks for
InputGroups == (CHOOSE e \in V6Table : e[1] = AddressText)[2]

InputOctets == (CHOOSE e \in V4Table : e[1] = AddressText)[2]

InputCidr == IF HasSlash THEN DecimalOf(CidrText) ELSE IF IsV6Text THEN 128 ELSE 32

\* C11: for every valid IPv6 address A and every cidr in 0..128, the network
\* computed by calculateIPv6Network is A with its low 128 - cidr bits cleared
\* and its top cidr bits unchanged; cidr = 0 gives the all-zero address and
\* cidr = 128 gives A.
C11_V6NetworkIsMaskedAddress ==
  (Processed /\ input \in WellFormedInputs /\ IsV6Text) =>
    /\ ~Failed
    /\ Info.cidr = InputCidr
    /\ Len(Info.network) = 39
    /\ FullGroupsOf(Info.network) = ClearedBeyond(InputGroups, InputCidr)
    /\ InputCidr = 0 => Info.network = "0000:0000:0000:0000:0000:0000:0000:0000"
    /\ InputCidr = 128 => FullGroupsOf(Info.network) = InputGroups

\* C11 is met by a prefix length that ends inside the third group.
C11_Witness ==
  /\ input = "2001:db8:abcd:12:ff00::/35"
  /\ Processed
  /\ ~Failed
  /\ Info.network = "2001:0db8:a000:0000:0000:0000:0000:0000"

\* The host count that four octets denote
CountOfOctets(o) == <<o[3] * 256 + o[4], o[1] * 256 + o[2], 0, 0>>

\* C12: for every valid IPv4 address and every cidr in 1..30,
\* firstHost = network + 1 and lastHost = broadcast - 1, so that
\* lastHost - firstHost = totalHosts - 3; for cidr 31 and 32,
\* firstHost = lastHost = network.
C12_HostRange ==
  (Processed /\ input \in WellFormedInputs /\ ~IsV6Text) =>
    /\ ~Failed
    /\ Info.cidr = InputCidr
    /\ InputCidr \in 1..30 =>
         LET network   == OctetsOf(Info.network)
             broadcast == OctetsOf(Info.broadcast)
             firstHost == OctetsOf(Info.firstHost)
             lastHost  == OctetsOf(Info.lastHost)
             span      == SubDigits(lastHost, firstHost, 4, 256)
         IN /\ firstHost = AddShifted(network, 1, 0, 8)
            /\ InSpace(firstHost, 256)
            /\ AddShifted(lastHost, 1, 0, 8) = broadcast
            /\ LessDigits(firstHost, lastHost, 1)
            /\ CountOfOctets(AddShifted(span, 3, 0, 8)) = Info.totalHosts
    /\ InputCidr \in {31, 32} =>
         /\ Info.firstHost = Info.network
         /\ Info.lastHost = Info.network

\* C12 is met by a /20 whose host range runs from .0.1 to .15.254.
C12_Witness ==
  /\ input = "172.16.5.4/20"
  /\ Processed
  /\ ~Failed
  /\ Info.firstHost = "172.16.0.1"
  /\ Info.lastHost = "172.16.15.254"
  /\ Info.totalHosts = <<4096, 0, 0, 0>>

\* Bit k (0 the lowest) of octet i of o
OctetBit(o, i, k) == (o[i] \div 2^k) % 2

\* C13: for every valid IPv4 address and every cidr in 0..32,
\* network AND (NOT mask) = 0 and broadcast OR mask = 0xFFFFFFFF, where mask
\* is the value rendered as subnetMask.
C13_MaskComplementLaws ==
  (Processed /\ input \in WellFormedInputs /\ ~IsV6Text) =>
    /\ ~Failed
    /\ Info.cidr = InputCidr
    /\ LET network   == OctetsOf(Info.network)
           broadcast == OctetsOf(Info.broadcast)
           mask      == OctetsOf(Info.subnetMask)
       IN \A i \in 1..4 : \A k \in 0..7 :
            /\ OctetBit(network, i, k) = 1 => OctetBit(mask, i, k) = 1
            /\ OctetBit(broadcast, i, k) = 1 \/ OctetBit(mask, i, k) = 1

\* C13 is met by a /26 whose mask ends inside the last octet.
C13_Witness ==
  /\ input = "192.168.1.100/26"
  /\ Processed
  /\ ~Failed
  /\ Info.subnetMask = "255.255.255.192"
  /\ Info.network = "192.168.1.64"
  /\ Info.broadcast = "192.168.1.127"

\* The compared prefix of the call, from the table of prefixes
ComparedPrefix == CHOOSE e \in CheckPrefixTable : e[1] = call.ip

\* Every address of the compared prefix C/c, C its first address, is
\* network + k for some 0 <= k < 2^hostBits: the prefix is no shorter than
\* that of the network and C lies in the block.
FitsWithin(C, c) ==
  /\ c >= Info.cidr
  /\ IF Info.ipVersion = 4
     THEN InBlock(C, OctetsOf(Info.network), 32 - Info.cidr, 8)
     ELSE InBlock(C, FullGroupsOf(Info.network), 128 - Info.cidr, 16)

\* C14: when the compared text is a prefix C/c, isIPInSubnet reports true for
\* it against network N/n only if every address of C/c lies inside N/n; a
\* compared prefix with c < n is never reported as within N/n.
C14_PrefixFitsWithin ==
  (IsCheck /\ input \in WellFormedInputs /\ call.ip \in CheckPrefixes
     /\ Len(ComparedPrefix[2]) = (IF Info.ipVersion = 4 THEN 4 ELSE 8)
     /\ call.ret.result) =>
    FitsWithin(ComparedPrefix[2], ComparedPrefix[3])

\* The IP version of the compared text of the call: 6 for a text with a
\* colon, as calculateSubnet tells the versions apart
ComparedVersion == IF Includes(call.ip, ":") THEN 6 ELSE 4

\* C15: isIPInSubnet called with an address or prefix of one IP version and
\* a SubnetInfo of the other version always returns a result with error
\* set, never an error-free true or false verdict.
C15_VersionMismatchIsError ==
  (IsCheck /\ call.ip \in V4Addresses \cup V6Addresses \cup CheckPrefixes \cup V6DottedTail
     /\ ComparedVersion # Info.ipVersion) =>
    "error" \in DOMAIN call.ret

\* C15 for every compared text that has no dotted tail
C15_WithoutDottedTail ==
  (IsCheck /\ call.ip \in V4Addresses \cup V6Addresses \cup CheckPrefixes
     /\ ComparedVersion # Info.ipVersion) =>
    "error" \in DOMAIN call.ret

\* The number Number.MAX_SAFE_INTEGER - 2 as a host count
SentinelLessTwo == <<TwoPow16 - 3, TwoPow16 - 1, TwoPow16 - 1, 31>>

\* C16: whenever an IPv6 SubnetInfo carries the too-large sentinel as
\* totalHosts, the sentinel is not consumed as an ordinary count: usableHosts,
\* the count the summaries render as a number, is not the sentinel less two.
C16_SentinelIsNotACount ==
  (HasSubnetInfo /\ Info.ipVersion = 6 /\ Info.totalHosts = MaxSafeInteger) =>
    Info.usableHosts # SentinelLessTwo

\* The address with groups g lies in fc00::/7 or in fe80::/10, or is ::1
InPrivateV6Range(g) ==
  \/ g[1] \div 2^9 = 126
  \/ g[1] \div 2^6 = 1018
  \/ g = <<0, 0, 0, 0, 0, 0, 0, 1>>

\* C17: for every valid IPv6 input whose address lies in fc00::/7, in
\* fe80::/10 (first group fe80 through febf) or equals ::1, written
\* compressed or full, in upper- or lower-case hex, isPrivate is true.
C17_PrivateV6Ranges ==
  (Processed /\ input \in WellFormedInputs /\ IsV6Text /\ InPrivateV6Range(InputGroups)) =>
    /\ ~Failed
    /\ Info.isPrivate

\* C17 for lower-case texts outside fe81:: to febf:ffff:...
C17_LowerCaseFirstLinkLocalGroup ==
  (Processed /\ input \in WellFormedInputs /\ IsV6Text /\ InPrivateV6Range(InputGroups)
     /\ AllIn(AddressText, "0123456789abcdef:")
     /\ InputGroups[1] \notin 65153..65215) =>
    /\ ~Failed
    /\ Info.isPrivate

\* The class letter of the standard boundary table
ClassLetter(firstOctet) ==
  IF firstOctet <= 127 THEN "A"
  ELSE IF firstOctet <= 191 THEN "B"
  ELSE IF firstOctet <= 223 THEN "C"
  ELSE IF firstOctet <= 239 THEN "D"
  ELSE "E"

\* C18: for every valid IPv4 input, networkClass is the class label chosen
\* by the first octet (A for 0..127, B for 128..191, C for 192..223, D for
\* 224..239, E for 240..255); no valid address is left without a class. A
\* label is read by its first letter.
C18_EveryAddressHasAClass ==
  (Processed /\ input \in WellFormedInputs /\ ~IsV6Text) =>
    /\ ~Failed
    /\ Len(Info.networkClass) > 0
    /\ SubSeq(Info.networkClass, 1, 1) = ClassLetter(InputOctets[1])

\* C18 for first octets other than 0 and 127
C18_OutsideZeroAndLoopback ==
  (Processed /\ input \in WellFormedInputs /\ ~IsV6Text /\ InputOctets[1] \notin {0, 127}) =>
    /\ ~Failed
    /\ SubSeq(Info.networkClass, 1, 1) = ClassLetter(InputOctets[1])

\* The number of zero groups of g from group i on, up to the next other group
RECURSIVE ZeroRun(_, _)
ZeroRun(g, i) == IF i > 8 \/ g[i] # 0 THEN 0 ELSE 1 + ZeroRun(g, i + 1)

\* Where the longest run of zero groups of g starts, the leftmost of equals
LongestZeroRun(g) ==
  CHOOSE i \in 1..8 :
    \A j \in 1..8 :
      ZeroRun(g, i) > ZeroRun(g, j) \/ (ZeroRun(g, i) = ZeroRun(g, j) /\ i <= j)

\* The group texts t[a..b] with colons between them
RECURSIVE Colons(_, _, _)
Colons(t, a, b) ==
  IF a > b THEN ""
  ELSE IF a = b THEN t[a]
  ELSE t[a] \o ":" \o Colons(t, a + 1, b)

\* The compressed display form of a full-form text: its longest run of two
\* or more zero groups written as ::, the other groups as they are
CompressedDisplay(text) ==
  LET t == Split(text, ":")
      g == FullGroupsOf(text)
      i == LongestZeroRun(g)
      r == ZeroRun(g, i)
  IN IF r < 2 THEN text
     ELSE Colons(t, 1, i - 1) \o "::" \o Colons(t, i + r, 8)

\* 2^n for n in 0..63 as a host count
TwoToThe(n) == [i \in 1..4 |-> IF n \div 16 = i - 1 THEN 2^(n % 16) ELSE 0]

\* C19: for an IPv6 input the network field is the full form of eight
\* 4-digit hex groups, the prefix field is the compressed display form
\* followed by /cidr, and totalHosts is the too-large sentinel exactly when
\* 128 - cidr >= 64 and 2^(128 - cidr) otherwise.
C19_V6Fields ==
  (Processed /\ input \in WellFormedInputs /\ IsV6Text) =>
    /\ ~Failed
    /\ Len(Info.network) = 39
    /\ FullGroupsOf(Info.network) = ClearedBeyond(InputGroups, InputCidr)
    /\ Info.prefix = CompressedDisplay(Info.network) \o Slash(InputCidr)
    /\ Info.totalHosts =
         IF 128 - InputCidr >= 64 THEN MaxSafeInteger ELSE TwoToThe(128 - InputCidr)

\* C19 without what it says of the prefix field
C19_NetworkAndTotalHosts ==
  (Processed /\ input \in WellFormedInputs /\ IsV6Text) =>
    /\ ~Failed
    /\ Len(Info.network) = 39
    /\ FullGroupsOf(Info.network) = ClearedBeyond(InputGroups, InputCidr)
    /\ Info.totalHosts =
         IF 128 - InputCidr >= 64 THEN MaxSafeInteger ELSE TwoToThe(128 - InputCidr)

\* C20: processInput and isIPInSubnet return for every input text:
\* processInput returns a ProcessResult in which exactly one of error and
\* subnetInfo is present, and isIPInSubnet returns result = false whenever
\* it sets error.
C20_ErrorsAreValues ==
  /\ Processed =>
       /\ Failed # HasSubnetInfo
       /\ Failed => Len(result.error) > 0
       /\ HasSubnetInfo => Info # Null /\ Info.ipVersion \in {4, 6}
  /\ IsCheck =>
       /\ call.ret.result \in BOOLEAN
       /\ "error" \in DOMAIN call.ret => call.ret.result = FALSE

\* C20 is met by a check that ends in an error on a SubnetInfo computed
\* without one.
C20_Witness ==
  /\ Processed
  /\ ~Failed
  /\ IsCheck
  /\ call.ip = "1.2.3.999"
  /\ "error" \in DOMAIN call.ret
  /\ call.ret.result = FALSE

\* A text without an address gets a ProcessResult with an error.
C20_FailedWitness ==
  /\ input = "  "
  /\ Processed
  /\ Failed

IsCompress == call.op = "compressIPv6"

\* A group text without its leading zeros, a single 0 for a zero group
Unpadded(t) == IF SkipChar(t, 1, "0") > Len(t) THEN "0" ELSE SubSeq(t, SkipChar(t, 1, "0"), Len(t))

\* The canonical compressed form of a full-form text: the longest run of
\* zero groups, the leftmost of equals, written as ::, the other groups
\* without their leading zeros
Canonical(text) ==
  LET t == Split(text, ":")
      u == [k \in 1..8 |-> Unpadded(t[k])]
      g == FullGroupsOf(text)
      i == LongestZeroRun(g)
      r == ZeroRun(g, i)
  IN IF r = 0 THEN Colons(u, 1, 8)
     ELSE Colons(u, 1, i - 1) \o "::" \o Colons(u, i + r, 8)

\* C21: compressIPv6 applied to a full-form address of eight 4-digit hex
\* groups collapses only one run of all-zero groups (the longest, leftmost
\* on ties) into ::, strips leading zeros in the other groups, and its
\* output contains at most one ::, so that expanding it again yields the
\* same 128-bit address.
C21_CompressIsCanonical ==
  (IsCompress /\ input \in WellFormedInputs) =>
    /\ Len(Split(call.ret, "::")) <= 2
    /\ ExpandIPv6(call.ret) # NullText
    /\ FullGroupsOf(ExpandIPv6(call.ret)) = FullGroupsOf(Info.network)
    /\ call.ret = Canonical(Info.network)

\* The zero groups of g are next to each other
OneZeroRun(g) ==
  \A i \in 1..8 : \A j \in i..8 : (g[i] = 0 /\ g[j] = 0) => \A k \in i..j : g[k] = 0

\* C21 for addresses whose zero groups are two or more groups next to each
\* other, or none
C21_OneLongZeroRun ==
  (IsCompress /\ input \in WellFormedInputs /\ OneZeroRun(FullGroupsOf(Info.network))
     /\ ZeroRun(FullGroupsOf(Info.network), LongestZeroRun(FullGroupsOf(Info.network))) # 1) =>
    /\ Len(Split(call.ret, "::")) <= 2
    /\ ExpandIPv6(call.ret) # NullText
    /\ FullGroupsOf(ExpandIPv6(call.ret)) = FullGroupsOf(Info.network)
    /\ call.ret = Canonical(Info.network)

\* C22: for every IPv6 prefix P produced by processInput and every newCidr
\* with P.cidr < newCidr <= 128, the entries of generateSubnetList(P, newCidr)
\* are pairwise distinct and isIPInSubnet(entry, P).result is true for each.
C22_V6EntriesDistinctAndInside ==
  (IsList /\ input \in WellFormedInputs /\ Info.ipVersion = 6 /\ call.newCidr > Info.cidr) =>
    /\ Cardinality({call.ret[n] : n \in 1..Len(call.ret)}) = Len(call.ret)
    /\ \A n \in 1..Len(call.ret) : IsIPInSubnet(call.ret[n], Info) = [result |-> TRUE]

\* C22 for a newCidr that is no multiple of 16 and adds no more bits than
\* lie in its group: where the entries are the addresses C6 speaks of
C22_WithinOneGroup ==
  (IsList /\ input \in WellFormedInputs /\ Info.ipVersion = 6 /\ call.newCidr > Info.cidr
     /\ call.newCidr % 16 # 0 /\ call.newCidr - Info.cidr <= call.newCidr % 16) =>
    /\ Cardinality({call.ret[n] : n \in 1..Len(call.ret)}) = Len(call.ret)
    /\ \A n \in 1..Len(call.ret) : IsIPInSubnet(call.ret[n], Info) = [result |-> TRUE]

\* The low bits of d are zero, for digits of width bits each
LowBitsZero(d, bits, width) ==
  \A i \in 1..Len(d) :
    LET low == width * (Len(d) - i)
    IN IF bits >= low + width THEN d[i] = 0
       ELSE IF bits <= low THEN TRUE
       ELSE d[i] % 2^(bits - low) = 0

\* The entries of an IPv4 list are aligned /newCidr networks, no two the
\* same, each with its whole range in [network, broadcast], and as many as
\* that range holds.
PartitionsPrefix ==
  LET hostBits  == 32 - call.newCidr
      network   == OctetsOf(Info.network)
      broadcast == OctetsOf(Info.broadcast)
  IN /\ Len(call.ret) = 2^(call.newCidr - Info.cidr)
     /\ Cardinality({call.ret[n] : n \in 1..Len(call.ret)}) = Len(call.ret)
     /\ AddShifted(network, Len(call.ret), hostBits, 8) = AddShifted(broadcast, 1, 0, 8)
     /\ \A n \in 1..Len(call.ret) :
          LET first == OctetsOf(EntryAddress(n))
          IN /\ call.ret[n] = Dotted(first) \o Slash(call.newCidr)
             /\ InSpace(first, 256)
             /\ LowBitsZero(first, hostBits, 8)
             /\ ~LessDigits(first, network, 1)
             /\ ~LessDigits(AddShifted(broadcast, 1, 0, 8), AddShifted(first, 1, hostBits, 8), 1)

\* C23: for every IPv4 prefix P produced by processInput (cidr in 0..32) and
\* every newCidr with P.cidr < newCidr <= 32 and newCidr - P.cidr <= 8, the
\* entries of generateSubnetList(P, newCidr) are aligned /newCidr networks
\* whose address ranges are pairwise disjoint and whose union is exactly
\* the address range [P.network, P.broadcast].
C23_V4EntriesPartition ==
  (IsList /\ input \in WellFormedInputs /\ Info.ipVersion = 4
     /\ call.newCidr > Info.cidr /\ call.newCidr - Info.cidr <= 8) =>
    PartitionsPrefix

\* C23 for prefixes of length 1..32
C23_FromLengthOne ==
  (IsList /\ input \in WellFormedInputs /\ Info.ipVersion = 4 /\ Info.cidr >= 1
     /\ call.newCidr > Info.cidr /\ call.newCidr - Info.cidr <= 8) =>
    PartitionsPrefix

\* Nothing is pending on the copy button: every write has settled and
\* every timer has fired
Quiescent == awaiting = 0 /\ timers = <<>>

\* C24: for any sequence of clicks on one copy button, with any
\* interleaving of the clipboard writes and the reset timers, the label is
\* Copy once all pending timers have fired; it is never left showing
\* Copied! or Failed.
C24_LabelReturnsToCopy == Quiescent => label = "Copy"

\* C24 as long as no click is made while a timer is pending or a write
\* unsettled: then the label is Copy whenever nothing is pending.
C24_OneClickAtATime == (clicks <= 1 /\ Quiescent) => label = "Copy"

\* A call of handleProcess has been made
Handled == resultsDiv # Hidden

\* lastSubnetInfo holds nothing
NothingStored == lastSubnetInfo = Null \/ lastSubnetInfo = Undefined

\* C25: after every call of App.handleProcess, lastSubnetInfo is the
\* SubnetInfo computed from that call's main input, and is empty when that
\* main input is empty or invalid; it never holds the subnet of an earlier
\* call.
C25_LastSubnetInfoIsCurrent ==
  Handled =>
    LET processResult == ProcessInput(mainInput)
    IN IF "subnetInfo" \in DOMAIN processResult
       THEN lastSubnetInfo = processResult.subnetInfo
       ELSE NothingStored

\* C25 for calls with a main input that is not empty
C25_AfterNonEmptyMain ==
  (Handled /\ Trim(mainInput) # "") =>
    LET processResult == ProcessInput(mainInput)
    IN IF "subnetInfo" \in DOMAIN processResult
       THEN lastSubnetInfo = processResult.subnetInfo
       ELSE NothingStored

====
